---- MODULE Spec2Model ----
(***************************************************************************)
(* Model of the wave-client request engine                                 *)
(* (src/python/wave_client/utils/http_client.py, class HTTPClient).        *)
(*                                                                         *)
(* One logical request is followed through its physical attempts.  Time   *)
(* is counted in whole seconds.  The suspension points of request() (the  *)
(* await on the transport and the await on asyncio.sleep) separate the    *)
(* actions; everything request() does between two suspension points is    *)
(* one action.                                                             *)
(***************************************************************************)
EXTENDS Integers, Sequences, FiniteSets, TLC

(***************************************************************************)
(* Bounds of the model.                                                    *)
(***************************************************************************)
\* max_retries is drawn from 0..MaxRetriesBound
MaxRetriesBound == 3
\* the server's version header is any string of at most MaxVersionLen characters
MaxVersionLen == 6
MaxRows == 6
MaxBatch == 3
MaxPages == 3
MaxTasks == 2
MaxTransports == 3
\* concurrent callers share a client whose max_retries is in 1..MaxBudget
MaxBudget == 2
\* experiment_data_to_dataframe is given at most MaxTableRows rows
MaxTableRows == 2

(***************************************************************************)
(* Optional values: Python's None and a present value.                     *)
(***************************************************************************)
None == <<>>
Some(x) == <<x>>
Min(a, b) == IF a <= b THEN a ELSE b

(***************************************************************************)
(* Constructor arguments (HTTPClient.__init__).                            *)
(***************************************************************************)
MaxRetriesChoices == 0..MaxRetriesBound
BaseDelayChoices == {1}
MaxDelayChoices == {1, 3}

(***************************************************************************)
(* What the server and the transport can answer.                           *)
(***************************************************************************)
Statuses == {200, 302, 400, 401, 402, 403, 404, 409, 422, 429,
             500, 501, 502, 503, 504, 505, 599, 600}

\* "object": content-type application/json, body decodes to a dict
\* "nonobject": content-type application/json, body decodes to a list,
\*              string, number or null
\* "undecodable": content-type application/json, response.json() raises
\* "text": any other content type
BodyKinds == {"object", "nonobject", "undecodable", "text"}

\* values of the Retry-After header, as the strings the header carries
RetryAfterValues == {"-1", "0", "2", "40", "soon"}

\* the Retry-After header varies on these statuses and is absent elsewhere;
\* on 503, where the code does not read it, it is absent or "2"
StatusesWithRetryAfter == {429, 503}

Responses ==
    { r \in [status_code : Statuses,
             body : BodyKinds,
             keys : SUBSET {"message", "detail"},
             retry_after_header : {None} \cup {Some(v) : v \in RetryAfterValues}] :
        /\ (r.body # "object" => r.keys = {})
        /\ (r.status_code \notin StatusesWithRetryAfter => r.retry_after_header = None)
        /\ (r.status_code = 503 => r.retry_after_header \in {None, Some("2")}) }

\* exceptions the transport raises from self._client.request
TransportErrors == {"asyncio.TimeoutError", "httpx.ConnectError",
                    "httpx.TimeoutException", "httpx.ReadError"}

\* random.uniform(0, 1), at its two ends
Jitters == {0, 1}

VARIABLES
    max_retries,    \* self.max_retries
    base_delay,     \* self.base_delay
    max_delay,      \* self.max_delay
    client,         \* self._client: "None" or "open"
    pc,             \* where the logical request is
    attempt,        \* the attempt parameter of the running request() frame
    response,       \* the response of the running frame, None before it arrives
    delay,          \* the delay handed to asyncio.sleep, None when not sleeping
    returned,       \* the value request() returned to the caller, or None
    raised,         \* the error request() raised to the caller, or None
    sent,           \* number of self._client.request calls of this logical request
    observed,       \* what each attempt received, in order
    slept           \* the delays slept so far, in order

request_vars == <<max_retries, base_delay, max_delay, client, pc, attempt, response,
                  delay, returned, raised, sent, observed, slept>>

\* utils/versioning.py: the arguments and results of its functions
VARIABLES
    client_version,  \* the client_version argument (wave_client.__version__)
    api_version,     \* the api_version argument (the X-WAVE-API-Version header)
    version_result,  \* what parse_version, is_compatible and
                     \* get_compatibility_warning returned, None before the call
    version_log      \* the records log_version_info wrote, None before the call

version_vars == <<client_version, api_version, version_result, version_log>>

\* lines 123-127 of request(): a second run of the same logical request, which
\* receives the same statuses, bodies and exceptions as the run held in the
\* request variables and its own X-WAVE-API-Version headers
VARIABLES
    twin             \* the second run: its pc, attempt, delay, result, delays
                     \* slept, last header and log; None when there is none

header_vars == <<twin>>

\* resources/experiment_data.py: get_all_data_raw and the server it pages through
VARIABLES
    server,          \* "fixed": holds rows and answers rows[offset : offset+limit];
                     \* "any": answers with a page of any length, or fails
    rows,            \* the rows the fixed server holds
    batch_size,      \* the batch_size argument
    page_pc,         \* where get_all_data_raw is
    offset,          \* its local offset
    all_data,        \* its local all_data
    batch,           \* its local batch, None before the first page
    page_requests,   \* the (limit, offset) of each get_data_raw call, in order
    pages,           \* the length of each page received, in order
    page_returned    \* the list get_all_data_raw returned, None before it returns

page_vars == <<server, rows, batch_size, page_pc, offset, all_data, batch,
               page_requests, pages, page_returned>>

\* http_client.py, lines 55-87: one HTTPClient shared by the tasks of an event
\* loop
VARIABLES
    _client,         \* self._client: None or the transport held
    transports,      \* the httpx.AsyncClient objects created so far, each
                     \* "open" or "closed", in order of creation
    tasks            \* for each task where it is, whether it is inside
                     \* `async with`, the transport its pending await is on
                     \* and what it ran last

life_vars == <<_client, transports, tasks>>

\* http_client.py, lines 89-121: the arguments of request() and what the
\* transport is asked to send
VARIABLES
    call_args,       \* method, url, json_data, params of the running request()
                     \* frame, None when no request is running
    wire,            \* the method, url, json, params of each
                     \* self._client.request call of the logical request
    applied          \* how many times the server has applied the request

wire_vars == <<call_args, wire, applied>>

\* http_client.py, lines 89-173: the logical requests that tasks of one event
\* loop run at the same time on the HTTPClient of the request variables
VARIABLES
    requests         \* for each caller its request(): where it is, the attempt
                     \* parameter of its running frame, what each attempt
                     \* received, the delays slept, the sends, the result and
                     \* whether its task was cancelled; <<>> when there is none

concurrent_vars == <<requests>>

\* utils/pandas_utils.py: the argument and the result of
\* experiment_data_to_dataframe
VARIABLES
    data_rows,       \* the data_rows argument
    df               \* the DataFrame returned, None before the call

table_vars == <<data_rows, df>>

vars == <<request_vars, version_vars, header_vars, page_vars, life_vars, wire_vars,
          concurrent_vars, table_vars>>

\* what the actions of one part leave alone
outside_request == <<version_vars, header_vars, page_vars, life_vars, wire_vars,
                    concurrent_vars, table_vars>>
outside_version == <<request_vars, header_vars, page_vars, life_vars, wire_vars,
                    concurrent_vars, table_vars>>
outside_header == <<page_vars, life_vars, wire_vars,
                    concurrent_vars, table_vars>>
outside_pages == <<request_vars, version_vars, header_vars, life_vars, wire_vars,
                    concurrent_vars, table_vars>>
outside_life == <<request_vars, version_vars, header_vars, page_vars, wire_vars,
                    concurrent_vars, table_vars>>
outside_wire == <<version_vars, header_vars, page_vars, life_vars,
                    concurrent_vars, table_vars>>

outside_concurrent == <<pc, attempt, response, delay, returned, raised, sent,
                        observed, slept, version_vars, header_vars, page_vars,
                        life_vars, wire_vars, table_vars>>
outside_table == <<request_vars, version_vars, header_vars, page_vars, life_vars,
                   wire_vars, concurrent_vars>>

config == <<max_retries, base_delay, max_delay>>

(***************************************************************************)
(* exceptions.py: the error classes.                                       *)
(***************************************************************************)
WaveClientError(message, status_code, detail) ==
    [cls |-> "WaveClientError", message |-> message, status_code |-> status_code,
     detail |-> detail, retry_after |-> None]

ValidationError(message, detail) ==
    [WaveClientError(message, Some(400), detail) EXCEPT !.cls = "ValidationError"]

AuthenticationError(message, detail) ==
    [WaveClientError(message, Some(401), detail) EXCEPT !.cls = "AuthenticationError"]

AuthorizationError(message, detail) ==
    [WaveClientError(message, Some(403), detail) EXCEPT !.cls = "AuthorizationError"]

NotFoundError(message, detail) ==
    [WaveClientError(message, Some(404), detail) EXCEPT !.cls = "NotFoundError"]

RateLimitError(message, detail, retry_after) ==
    [WaveClientError(message, Some(429), detail) EXCEPT
        !.cls = "RateLimitError", !.retry_after = retry_after]

ServerError(message, status_code, detail) ==
    [WaveClientError(message, Some(status_code), detail) EXCEPT !.cls = "ServerError"]

(***************************************************************************)
(* What the code reads from a response.                                    *)
(***************************************************************************)
\* response.headers.get("content-type", "").startswith("application/json")
ContentTypeIsJson(r) == r.body # "text"

\* response.text, a token standing for the raw body
ResponseText(r) == "response.text"

\* float(response.headers["Retry-After"]): the number, or None where float()
\* raises ValueError
ParseFloat(v) ==
    CASE v = "-1" -> Some(-1)
      [] v = "0" -> Some(0)
      [] v = "2" -> Some(2)
      [] v = "40" -> Some(40)
      [] OTHER -> None

\* error_data of request(): {} unless the content type is JSON and
\* response.json() succeeds, and then whatever response.json() returned
ErrorData(r) ==
    IF ContentTypeIsJson(r) /\ r.body # "undecodable"
    THEN [is_dict |-> r.body = "object", keys |-> r.keys]
    ELSE [is_dict |-> TRUE, keys |-> {}]

(***************************************************************************)
(* HTTPClient._create_http_error, for an error_data that is a dict (for    *)
(* any other error_data line 209 raises AttributeError, see TryBody).      *)
(***************************************************************************)
retry_after_default == 5

_create_http_error(status_code, error_data, r) ==
    LET message == IF "message" \in error_data.keys
                   THEN "body.message"
                   ELSE "HTTP " \o ToString(status_code) \o " error"
        detail == IF "detail" \in error_data.keys
                  THEN Some("body.detail")
                  ELSE Some(ResponseText(r))
        retry_after ==
            IF r.retry_after_header # None
            THEN LET f == ParseFloat(r.retry_after_header[1])
                 IN  IF f # None THEN f ELSE Some(retry_after_default)
            ELSE None
    IN  CASE status_code = 400 -> ValidationError(message, detail)
          [] status_code = 401 -> AuthenticationError(message, detail)
          [] status_code = 403 -> AuthorizationError(message, detail)
          [] status_code = 404 -> NotFoundError(message, detail)
          [] status_code = 429 -> RateLimitError(message, detail, retry_after)
          [] status_code \notin {400, 401, 403, 404, 429} /\ status_code >= 500 ->
                ServerError(message, status_code, detail)
          [] OTHER -> WaveClientError(message, Some(status_code), detail)

(***************************************************************************)
(* HTTPClient._should_retry and _should_retry_network_error.               *)
(***************************************************************************)
retryable_codes == {429, 500, 502, 503, 504}

\* _should_retry with the budget test off by one
_should_retry_one_more(error, a) ==
    IF a > max_retries
    THEN FALSE
    ELSE error.status_code # None /\ error.status_code[1] \in retryable_codes

_should_retry(error, a) ==
    IF a >= max_retries
    THEN FALSE
    ELSE error.status_code # None /\ error.status_code[1] \in retryable_codes

RetryableTransportErrors ==
    {"asyncio.TimeoutError", "httpx.ConnectError", "httpx.TimeoutException"}

\* a variant that retries whatever the except block caught
_should_retry_network_error_any(e, a) ==
    IF a >= max_retries
    THEN FALSE
    ELSE TRUE

_should_retry_network_error(e, a) ==
    IF a >= max_retries
    THEN FALSE
    ELSE e \in RetryableTransportErrors

(***************************************************************************)
(* HTTPClient._calculate_delay; jitter is the value random.uniform drew.   *)
(***************************************************************************)
\* Python truth value of an Optional[float]
Truthy(opt) == opt # None /\ opt[1] # 0

_calculate_delay(a, retry_after, jitter) ==
    IF Truthy(retry_after)
    THEN Min(retry_after[1], max_delay)
    ELSE LET exponential_delay == base_delay * (2 ^ (a - 1))
         IN  Min(exponential_delay + jitter, max_delay)

(***************************************************************************)
(* One pass through the body of request() after the transport answered.   *)
(* A pass ends in one of four ways: the frame returns a payload, raises a *)
(* WaveClientError, suspends in asyncio.sleep before the recursive call,  *)
(* or (inside the try block only) throws another exception.               *)
(***************************************************************************)
Return(payload) ==
    [tag |-> "return", payload |-> Some(payload), error |-> None, exc |-> None,
     delay |-> None]
Raise(error) ==
    [tag |-> "raise", payload |-> None, error |-> Some(error), exc |-> None,
     delay |-> None]
Throw(exc) ==
    [tag |-> "throw", payload |-> None, error |-> None, exc |-> Some(exc),
     delay |-> None]
Sleep(d) ==
    [tag |-> "sleep", payload |-> None, error |-> None, exc |-> None,
     delay |-> Some(d)]

\* str(e) of the exceptions the model raises
ExceptionText(e) ==
    CASE e = "AttributeError" -> "'list' object has no attribute 'get'"
      [] e = "JSONDecodeError" -> "Expecting value"
      [] e = "asyncio.TimeoutError" -> ""
      [] e = "asyncio.CancelledError" -> ""
      [] e = "httpx.ConnectError" -> "All connection attempts failed"
      [] e = "httpx.TimeoutException" -> "timed out"
      [] OTHER -> "read error"

\* a variant of lines 130-134 that falls back to the text of a body that does
\* not decode
SuccessBranch_text_fallback(r) ==
    IF ContentTypeIsJson(r) /\ r.body # "undecodable"
    THEN Return([wrapped |-> FALSE, content |-> r.body])
    ELSE Return([wrapped |-> TRUE, content |-> ResponseText(r)])

\* lines 130-134: what request() does with a response below 400
SuccessBranch(r) ==
    IF ContentTypeIsJson(r)
    THEN IF r.body = "undecodable"
         THEN Throw("JSONDecodeError")
         ELSE Return([wrapped |-> FALSE, content |-> r.body])
    ELSE Return([wrapped |-> TRUE, content |-> ResponseText(r)])

\* lines 129-157: the try block from the response on
TryBody(r, a, jitter) ==
    IF r.status_code < 400
    THEN SuccessBranch(r)
    ELSE LET error_data == ErrorData(r)
         IN  IF ~error_data.is_dict
             THEN Throw("AttributeError")
             ELSE LET error == _create_http_error(r.status_code, error_data, r)
                  IN  IF _should_retry(error, a)
                      THEN Sleep(_calculate_delay(a, error.retry_after, jitter))
                      ELSE Raise(error)

\* lines 159-173: the except block, for an exception that is no WaveClientError
ExceptBlock(e, a, jitter) ==
    IF _should_retry_network_error(e, a)
    THEN Sleep(_calculate_delay(a, None, jitter))
    ELSE Raise(WaveClientError("Request failed: " \o ExceptionText(e), None, None))

\* the whole pass for a response
OnResponse(r, a, jitter) ==
    LET body == TryBody(r, a, jitter)
    IN  IF body.tag = "throw" THEN ExceptBlock(body.exc[1], a, jitter) ELSE body

\* the whole pass for an exception of the transport
OnTransportError(e, a, jitter) == ExceptBlock(e, a, jitter)

(***************************************************************************)
(* The state machine.                                                      *)
(***************************************************************************)
RequestInit ==
    /\ max_retries \in MaxRetriesChoices
    /\ base_delay \in BaseDelayChoices
    /\ max_delay \in MaxDelayChoices
    /\ client = "None"
    /\ pc = "idle"
    /\ attempt = 0
    /\ response = None
    /\ delay = None
    /\ returned = None
    /\ raised = None
    /\ sent = 0
    /\ observed = <<>>
    /\ slept = <<>>

\* HTTPClient._ensure_client: the value of self._client after it
_ensure_client == "open"

\* the state the frame is left in by a pass
Settle(step) ==
    /\ pc' = CASE step.tag = "return" -> "returned"
               [] step.tag = "raise" -> "raised"
               [] OTHER -> "sleeping"
    /\ delay' = step.delay
    /\ returned' = step.payload
    /\ raised' = step.error
    /\ slept' = IF step.tag = "sleep" THEN Append(slept, step.delay[1]) ELSE slept

\* the caller awaits request(method, url, ...) with the default attempt=1:
\* lines 112-121 up to the await on the transport
Call ==
    /\ pc = "idle"
    /\ client' = _ensure_client
    /\ pc' = "awaiting"
    /\ attempt' = 1
    /\ sent' = 1
    /\ response' = None
    /\ delay' = None
    /\ returned' = None
    /\ raised' = None
    /\ observed' = <<>>
    /\ slept' = <<>>
    /\ UNCHANGED config

\* the transport answers with a response: lines 123-157 and, for an exception
\* thrown there, lines 159-173.  Lines 123-127 (the X-WAVE-API-Version header)
\* only log and change no state of the request.
Respond ==
    /\ pc = "awaiting"
    /\ \E r \in Responses, jitter \in Jitters :
        /\ response' = Some(r)
        /\ observed' = Append(observed, [status_code |-> Some(r.status_code),
                                       retry_after_header |-> r.retry_after_header,
                                       exc |-> None])
        /\ Settle(OnResponse(r, attempt, jitter))
    /\ UNCHANGED <<config, client, attempt, sent>>

\* the transport raises: lines 159-173
TransportFails ==
    /\ pc = "awaiting"
    /\ \E e \in TransportErrors, jitter \in Jitters :
        /\ observed' = Append(observed, [status_code |-> None,
                                       retry_after_header |-> None,
                                       exc |-> Some(e)])
        /\ Settle(OnTransportError(e, attempt, jitter))
    /\ UNCHANGED <<config, client, attempt, sent, response>>

\* asyncio.sleep returns: the recursive call of lines 155 and 171, up to its
\* await on the transport.  The frames below the running one only pass its
\* result on: a value is returned by line 155 or 171, and the one exception a
\* frame lets out, WaveClientError, is re-raised by line 161 of each caller.
Resend ==
    /\ pc = "sleeping"
    /\ client' = _ensure_client
    /\ pc' = "awaiting"
    /\ attempt' = attempt + 1
    /\ sent' = sent + 1
    /\ response' = None
    /\ delay' = None
    /\ UNCHANGED <<config, returned, raised, observed, slept>>

\* the caller has its result and the client is ready for the next request
Finish ==
    /\ pc \in {"returned", "raised"}
    /\ pc' = "idle"
    /\ attempt' = 0
    /\ response' = None
    /\ delay' = None
    /\ returned' = None
    /\ raised' = None
    /\ sent' = 0
    /\ observed' = <<>>
    /\ slept' = <<>>
    /\ UNCHANGED <<config, client>>

\* HTTPClient.close, called while no request is running
Close ==
    /\ pc = "idle"
    /\ client' = "None"
    /\ UNCHANGED <<config, pc, attempt, response, delay, returned, raised, sent,
                   observed, slept>>

(***************************************************************************)
(* Properties of the retry loop.                                           *)
(***************************************************************************)
\* the frame has handled a response and has not been left yet
Handled == response # None
TheResponse == response[1]

\* C1: for max_retries >= 1 a logical request makes at most max_retries
\* physical attempts, whatever mix of retryable statuses and retryable
\* transport exceptions it meets; the attempt number is 1 at the first send
\* and one more at each re-send, on both retry paths.
C1_AttemptsBounded ==
    (max_retries >= 1 /\ pc # "idle") =>
        /\ sent <= max_retries
        /\ attempt = sent
        /\ Len(slept) = IF pc = "sleeping" THEN sent ELSE sent - 1
        /\ Len(observed) = IF pc = "awaiting" THEN sent - 1 ELSE sent

\* the budget of three attempts is used up on a mix of the two retry paths
C1_Witness ==
    /\ max_retries = 3
    /\ pc = "raised"
    /\ sent = 3
    /\ observed[1].exc = Some("httpx.ConnectError")
    /\ observed[2].status_code = Some(503)
    /\ observed[3].status_code = Some(429)

(***************************************************************************)
(* The error taxonomy the statements below refer to.                       *)
(***************************************************************************)
TerminalStatuses == {400, 401, 403, 404}

TerminalClass(status) ==
    CASE status = 400 -> "ValidationError"
      [] status = 401 -> "AuthenticationError"
      [] status = 403 -> "AuthorizationError"
      [] OTHER -> "NotFoundError"

\* Server for 500..599, RateLimit for 429, Unknown for the rest
FailureClass(status) ==
    CASE status \in TerminalStatuses -> TerminalClass(status)
      [] status = 429 -> "RateLimitError"
      [] status \in 500..599 -> "ServerError"
      [] OTHER -> "WaveClientError"

\* every attempt so far received a response with status s
AllObserved(s) ==
    \A i \in 1..Len(observed) : observed[i].status_code = Some(s)

\* C2: a response with status 400, 401, 403 or 404 makes request() raise
\* ValidationError, AuthenticationError, AuthorizationError or NotFoundError
\* at once, at every attempt number: no sleep and no further attempt.
C2_TerminalRaisedAtOnce ==
    (Handled /\ TheResponse.status_code \in TerminalStatuses) =>
        /\ pc = "raised"
        /\ raised # None
        /\ raised[1].cls = TerminalClass(TheResponse.status_code)
        /\ raised[1].status_code = Some(TheResponse.status_code)

\* C3: when every attempt receives the same retryable server status and
\* max_retries = N >= 1, the request ends after exactly N attempts and N-1
\* sleeps by raising a ServerError carrying that status.
C3_SameStatusExhausts ==
    \A s \in retryable_codes \ {429} :
        (max_retries >= 1 /\ pc \in {"returned", "raised"} /\ AllObserved(s)) =>
            /\ sent = max_retries
            /\ Len(slept) = max_retries - 1
            /\ raised # None
            /\ raised[1].cls = "ServerError"
            /\ raised[1].status_code = Some(s)

\* C4: when the budget is exhausted on a retryable response, the error raised
\* is the classification of that last response: its kind and status code,
\* the message and the detail its body gives.
C4_LastFailureSurfaced ==
    (/\ max_retries >= 1
     /\ pc = "raised"
     /\ sent = max_retries
     /\ Handled
     /\ TheResponse.status_code \in retryable_codes) =>
        /\ raised[1].cls = FailureClass(TheResponse.status_code)
        /\ raised[1].status_code = Some(TheResponse.status_code)
        /\ ("message" \in TheResponse.keys => raised[1].message = "body.message")
        /\ ("detail" \in TheResponse.keys => raised[1].detail = Some("body.detail"))

\* C5: with max_retries >= 2 and max_delay >= 2, a first response 429 with
\* Retry-After: 2 is followed by a sleep of exactly 2 seconds, and a success
\* as the second response ends the request after two attempts with the
\* payload of that second response.
C5_RetryAfterTwoThenSuccess ==
    (max_retries >= 2 /\ max_delay >= 2) =>
        /\ (/\ Handled
            /\ Len(observed) = 1
            /\ TheResponse.status_code = 429
            /\ TheResponse.retry_after_header = Some("2")) =>
                (pc = "sleeping" /\ delay = Some(2) /\ slept = <<2>>)
        /\ (/\ Handled
            /\ Len(observed) = 2
            /\ observed[1].status_code = Some(429)
            /\ observed[1].retry_after_header = Some("2")
            /\ TheResponse.status_code < 400
            /\ TheResponse.body # "undecodable") =>
                /\ pc = "returned"
                /\ sent = 2
                /\ slept = <<2>>
                /\ returned = TryBody(TheResponse, 2, 0).payload

\* C6: an error response is retried iff its status is 429, 500, 502, 503 or
\* 504 and attempt < max_retries; any other error response is raised after
\* the attempt that received it.
C6_RetriedIffRetryable ==
    (Handled /\ TheResponse.status_code >= 400) =>
        /\ pc = "sleeping" <=>
              (TheResponse.status_code \in {429, 500, 502, 503, 504}
                  /\ attempt < max_retries)
        /\ pc # "sleeping" => pc = "raised"

\* the retry_after of the RateLimitError made from the response in hand
RetryAfterOfResponse ==
    _create_http_error(TheResponse.status_code, ErrorData(TheResponse), TheResponse).retry_after

\* the frame sleeps after a 429 response
BackingOffFrom429 ==
    Handled /\ pc = "sleeping" /\ TheResponse.status_code = 429

\* C7: for every attempt and every retry_after R the rate-limit failure
\* carries, 0 included, the delay is exactly min(R, max_delay).
C7_RetryAfterIsTheDelay ==
    (BackingOffFrom429 /\ RetryAfterOfResponse # None) =>
        delay = Some(Min(RetryAfterOfResponse[1], max_delay))

\* C8: whatever the Retry-After header holds (nothing, a positive number,
\* zero, a negative number), the delay handed to the sleep lies in
\* 0..max_delay.
C8_DelayInRange ==
    pc = "sleeping" => (0 <= delay[1] /\ delay[1] <= max_delay)

\* the exponential delays at attempt a
ExponentialDelays(a) ==
    {Min(base_delay * (2 ^ (a - 1)) + j, max_delay) : j \in Jitters}

\* C9: after a 429 a numeric Retry-After R makes the backoff min(R, max_delay),
\* a non-numeric one makes it min(5, max_delay), and without the header the
\* backoff is the exponential delay.
C9_RetryAfterHeader ==
    BackingOffFrom429 =>
        LET h == TheResponse.retry_after_header
        IN  CASE h = None -> delay[1] \in ExponentialDelays(attempt)
              [] h # None /\ ParseFloat(h[1]) # None ->
                    delay[1] = Min(ParseFloat(h[1])[1], max_delay)
              [] OTHER -> delay[1] = Min(5, max_delay)

\* C10: a status in 500..599 is raised as ServerError and any other error
\* status outside 400, 401, 403, 404 and 429 as plain WaveClientError, both
\* with the status code kept.
C10_ServerOrUnknown ==
    (/\ Handled
     /\ pc = "raised"
     /\ raised[1].status_code # None
     /\ TheResponse.status_code >= 400
     /\ TheResponse.status_code \notin {400, 401, 403, 404, 429}) =>
        /\ raised[1].status_code = Some(TheResponse.status_code)
        /\ raised[1].cls = IF TheResponse.status_code \in 500..599
                           THEN "ServerError"
                           ELSE "WaveClientError"

(***************************************************************************)
(* utils/versioning.py.  A version string is the sequence of its           *)
(* characters.                                                             *)
(***************************************************************************)
Digits == {"0", "1", "2", "3", "4", "5", "6", "7", "8", "9"}

DigitValue(c) ==
    CASE c = "0" -> 0 [] c = "1" -> 1 [] c = "2" -> 2 [] c = "3" -> 3
      [] c = "4" -> 4 [] c = "5" -> 5 [] c = "6" -> 6 [] c = "7" -> 7
      [] c = "8" -> 8 [] OTHER -> 9

\* int() of a run of digits
RECURSIVE IntOf(_)
IntOf(ds) ==
    IF ds = <<>> THEN 0
    ELSE 10 * IntOf(SubSeq(ds, 1, Len(ds) - 1)) + DigitValue(ds[Len(ds)])

\* str.lstrip(c)
RECURSIVE lstrip(_, _)
lstrip(str, c) ==
    IF str # <<>> /\ Head(str) = c THEN lstrip(Tail(str), c) ELSE str

\* the length of the longest run of digits str starts with: what \d+ takes
RECURSIVE DigitRun(_)
DigitRun(str) ==
    IF str # <<>> /\ Head(str) \in Digits THEN 1 + DigitRun(Tail(str)) ELSE 0

Drop(str, n) == SubSeq(str, n + 1, Len(str))

\* re.match(r"^(\d+)\.(\d+)\.(\d+)(?:-.*)?(?:\+.*)?$", str): the three groups,
\* or None when there is no match
MatchPattern(str) ==
    LET n1 == DigitRun(str)
        r1 == Drop(str, n1)
        n2 == DigitRun(Drop(r1, 1))
        r2 == Drop(r1, 1 + n2)
        n3 == DigitRun(Drop(r2, 1))
        r3 == Drop(r2, 1 + n3)
    IN  IF /\ n1 > 0
           /\ r1 # <<>> /\ Head(r1) = "."
           /\ n2 > 0
           /\ r2 # <<>> /\ Head(r2) = "."
           /\ n3 > 0
           /\ (r3 = <<>> \/ Head(r3) \in {"-", "+"})
        THEN Some(<<SubSeq(str, 1, n1), SubSeq(r1, 2, 1 + n2), SubSeq(r2, 2, 1 + n3)>>)
        ELSE None

\* parse_version without the removal of the 'v' prefix
parse_version_no_lstrip(version_string) ==
    IF version_string = <<>>
    THEN None
    ELSE LET m == MatchPattern(version_string)
         IN  IF m = None
             THEN None
             ELSE Some(<<IntOf(m[1][1]), IntOf(m[1][2]), IntOf(m[1][3])>>)

parse_version(version_string) ==
    IF version_string = <<>>
    THEN None
    ELSE LET m == MatchPattern(lstrip(version_string, "v"))
         IN  IF m = None
             THEN None
             ELSE Some(<<IntOf(m[1][1]), IntOf(m[1][2]), IntOf(m[1][3])>>)

\* is_compatible comparing the whole triple
is_compatible_exact(cv, av) ==
    LET client_parsed == parse_version(cv)
        api_parsed == parse_version(av)
    IN  IF client_parsed = None \/ api_parsed = None
        THEN TRUE
        ELSE client_parsed[1] = api_parsed[1]

is_compatible(cv, av) ==
    LET client_parsed == parse_version(cv)
        api_parsed == parse_version(av)
    IN  IF client_parsed = None \/ api_parsed = None
        THEN TRUE
        ELSE client_parsed[1][1] = api_parsed[1][1]

\* get_compatibility_warning with the two directions swapped
get_compatibility_warning_swapped(cv, av) ==
    IF is_compatible(cv, av)
    THEN None
    ELSE IF parse_version(cv)[1][1] > parse_version(av)[1][1]
         THEN Some("client is older")
         ELSE Some("client is newer")

\* the messages are named by what they say
get_compatibility_warning(cv, av) ==
    IF is_compatible(cv, av)
    THEN None
    ELSE LET client_parsed == parse_version(cv)
             api_parsed == parse_version(av)
         IN  IF client_parsed = None \/ api_parsed = None
             THEN Some("check failed")
             ELSE IF client_parsed[1][1] > api_parsed[1][1]
                  THEN Some("client is newer")
                  ELSE Some("client is older")

\* log_version_info(client_version, api_version): the records it writes, as
\* <<level, text>>; av is None when the caller passes no api_version.  It raises nothing.
log_version_info(cv, av) ==
    IF av = None \/ av[1] = <<>>
    THEN << <<"info", "client version">> >>
    ELSE LET compatible == is_compatible(cv, av[1])
             warning == get_compatibility_warning(cv, av[1])
         IN  IF compatible
             THEN << <<"info", "compatible">> >>
             ELSE << <<"warning", "incompatible">> >> \o
                  (IF warning # None THEN << <<"warning", warning[1]>> >> ELSE <<>>)

(***************************************************************************)
(* The version strings the functions are applied to.                       *)
(***************************************************************************)
VersionChars == {"v", "x", "1", ".", "-", "+"}

\* every string over VersionChars of at most n characters
RECURSIVE StringsUpTo(_)
StringsUpTo(n) ==
    IF n = 0 THEN {<<>>}
    ELSE LET shorter == StringsUpTo(n - 1)
         IN  shorter \cup {Append(str, c) : str \in shorter, c \in VersionChars}

NamedVersions ==
    { <<"1", ".", "2", ".", "3">>,
      <<"1", ".", "9", ".", "0">>,
      <<"1", ".", "0", ".", "0">>,
      <<"2", ".", "0", ".", "0">>,
      <<"v", "1", ".", "2", ".", "3", "-", "b", "e", "t", "a">>,
      <<"1", ".", "2", ".", "3", "-", "r", "c", "+", "7">>,
      <<"1", "0", ".", "2", ".", "3", "+", "b">>,
      <<"r", "e", "l", "1", ".", "2", ".", "3">>,
      <<"b", "a", "d">>,
      <<"1", ".", "2">>,
      <<>> }

\* the strings of at most n characters and the named ones
ApiVersions(n) == StringsUpTo(n) \cup NamedVersions

ClientVersions ==
    { <<"1", ".", "2", ".", "3">>,
      <<"v", "2", ".", "1", ".", "0", "-", "b", "e", "t", "a">>,
      <<"d", "e", "v">> }

VersionOff ==
    /\ client_version = None
    /\ api_version = None
    /\ version_result = None
    /\ version_log = None

VersionInit ==
    /\ client_version \in {Some(cv) : cv \in ClientVersions}
    /\ api_version = None
    /\ version_result = None
    /\ version_log = None

\* a caller applies the functions of utils/versioning.py to a pair of strings
CheckVersion ==
    /\ api_version = None
    /\ \E av \in ApiVersions(MaxVersionLen) :
        LET cv == client_version[1]
        IN  /\ api_version' = Some(av)
            /\ version_result' =
                   Some([client_parsed |-> parse_version(cv),
                         api_parsed |-> parse_version(av),
                         compatible |-> is_compatible(cv, av),
                         warning |-> get_compatibility_warning(cv, av)])
            /\ version_log' = Some(log_version_info(cv, Some(av)))
    /\ UNCHANGED client_version

(***************************************************************************)
(* http_client.py, lines 123-127: the X-WAVE-API-Version header.           *)
(***************************************************************************)
\* get_client_version(): wave_client.__version__
get_client_version == <<"1", ".", "2", ".", "3">>

\* the header of a response: absent, or a string that is compatible,
\* incompatible or unparseable
VersionHeaders ==
    {None} \cup {Some(h) : h \in {<<"1", ".", "9", ".", "0">>,
                                  <<"2", ".", "0", ".", "0">>,
                                  <<"b", "a", "d">>}}

\* the version check that raises on an incompatible server
HandleVersionHeader_raising(header) ==
    IF header = None
    THEN [exc |-> None, log |-> <<>>]
    ELSE IF is_compatible(get_client_version, header[1])
         THEN [exc |-> None, log |-> log_version_info(get_client_version, header)]
         ELSE [exc |-> Some("VersionError"),
               log |-> log_version_info(get_client_version, header)]

\* lines 123-127: the exception the version check lets out (none) and the
\* records it logs
HandleVersionHeader(header) ==
    IF header = None
    THEN [exc |-> None, log |-> <<>>]
    ELSE [exc |-> None, log |-> log_version_info(get_client_version, header)]

\* lines 123-157: the try block from the response on; checked is what the
\* version check of lines 123-127 did
TryBlock(r, checked, a, jitter) ==
    IF checked.exc # None
    THEN Throw(checked.exc[1])
    ELSE TryBody(r, a, jitter)

\* the whole pass for a response that may carry the header
OnVersionedResponse(r, checked, a, jitter) ==
    LET body == TryBlock(r, checked, a, jitter)
    IN  IF body.tag = "throw" THEN ExceptBlock(body.exc[1], a, jitter) ELSE body

\* the responses the two runs are fed
HeaderResponses ==
    { r \in Responses :
        /\ r.status_code \in {200, 404, 429, 503}
        /\ r.body \in {"object", "text"}
        /\ r.keys \in {{}, {"message", "detail"}}
        /\ r.retry_after_header \in {None, Some("2")} }

HeaderOff == twin = None

TwinIdle ==
    Some([pc |-> "idle", attempt |-> 0, delay |-> None, returned |-> None,
          raised |-> None, slept |-> <<>>, header |-> None, log |-> <<>>])

\* the second run after a pass
TwinSettled(step, header, log) ==
    Some([pc |-> CASE step.tag = "return" -> "returned"
                   [] step.tag = "raise" -> "raised"
                   [] OTHER -> "sleeping",
          attempt |-> twin[1].attempt,
          delay |-> step.delay,
          returned |-> step.payload,
          raised |-> step.error,
          slept |-> IF step.tag = "sleep"
                    THEN Append(twin[1].slept, step.delay[1])
                    ELSE twin[1].slept,
          header |-> header,
          log |-> log])

HeaderInit ==
    /\ client_version = Some(get_client_version)
    /\ api_version = None
    /\ version_result = None
    /\ version_log = None
    /\ twin = TwinIdle

\* both runs call request(method, url, ...)
HeaderCall ==
    /\ twin[1].pc = "idle"
    /\ Call
    /\ twin' = Some([twin[1] EXCEPT !.pc = "awaiting", !.attempt = 1])
    /\ UNCHANGED version_vars

\* both runs receive the same response, each with a header of its own
HeaderRespond ==
    /\ pc = "awaiting"
    /\ twin[1].pc = "awaiting"
    /\ \E r \in HeaderResponses, jitter \in Jitters :
        \E header \in VersionHeaders : \E twin_header \in VersionHeaders \ {header} :
            \E checked \in {HandleVersionHeader(header)},
               twin_checked \in {HandleVersionHeader(twin_header)} :
            \E step \in {OnVersionedResponse(r, checked, attempt, jitter)},
               twin_step \in {OnVersionedResponse(r, twin_checked, twin[1].attempt, jitter)} :
                /\ response' = Some(r)
                /\ observed' = Append(observed, [status_code |-> Some(r.status_code),
                                               retry_after_header |-> r.retry_after_header,
                                               exc |-> None])
                /\ Settle(step)
                /\ api_version' = header
                /\ version_log' = Some(checked.log)
                /\ twin' = TwinSettled(twin_step, twin_header, twin_checked.log)
    /\ UNCHANGED <<config, client, attempt, sent, client_version, version_result>>

\* the transport raises the same exception in both runs
HeaderTransportFails ==
    /\ pc = "awaiting"
    /\ twin[1].pc = "awaiting"
    /\ \E e \in TransportErrors, jitter \in Jitters :
        /\ observed' = Append(observed, [status_code |-> None,
                                       retry_after_header |-> None,
                                       exc |-> Some(e)])
        /\ Settle(OnTransportError(e, attempt, jitter))
        /\ \E twin_step \in {OnTransportError(e, twin[1].attempt, jitter)} :
            twin' = TwinSettled(twin_step, None, <<>>)
    /\ api_version' = None
    /\ version_log' = None
    /\ UNCHANGED <<config, client, attempt, sent, response, client_version,
                   version_result>>

\* both runs re-send
HeaderResend ==
    /\ twin[1].pc = "sleeping"
    /\ Resend
    /\ twin' = Some([twin[1] EXCEPT !.pc = "awaiting", !.attempt = @ + 1,
                                    !.delay = None, !.header = None, !.log = <<>>])
    /\ api_version' = None
    /\ version_log' = None
    /\ UNCHANGED <<client_version, version_result>>

\* both callers have their results
HeaderFinish ==
    /\ twin[1].pc \in {"returned", "raised"}
    /\ Finish
    /\ twin' = TwinIdle
    /\ api_version' = None
    /\ version_log' = None
    /\ UNCHANGED <<client_version, version_result>>

(***************************************************************************)
(* resources/experiment_data.py: get_all_data_raw.                         *)
(***************************************************************************)
\* the rows with ids from + 1 .. from + n
Page(from, n) == [i \in 1..n |-> from + i]

\* rows[offset : offset + limit]
Slice(list, off, limit) == SubSeq(list, off + 1, Min(off + limit, Len(list)))

\* what get_data_raw(limit, offset) can return
ServerPages(limit, off) ==
    IF server = "fixed"
    THEN {Slice(rows, off, limit)}
    ELSE {Page(off, n) : n \in 0..(IF Len(page_requests) < MaxPages
                                   THEN limit + 1
                                   ELSE limit - 1)}

\* line 294 with <= for <
LastPage_inclusive(page, size) == Len(page) <= size

\* line 294: if len(batch) < batch_size
LastPage(page, size) == Len(page) < size

\* line 297 counting pages for rows
NextOffset_by_one(off, size) == off + 1

\* line 297: offset += batch_size
NextOffset(off, size) == off + size

PagesOff ==
    /\ server = "fixed"
    /\ rows = <<>>
    /\ batch_size = 1
    /\ page_pc = "idle"
    /\ offset = 0
    /\ all_data = <<>>
    /\ batch = None
    /\ page_requests = <<>>
    /\ pages = <<>>
    /\ page_returned = None

PagesInit ==
    /\ server \in {"fixed", "any"}
    /\ rows \in {Page(0, n) : n \in 0..MaxRows}
    /\ (server = "any" => rows = <<>>)
    /\ batch_size \in 1..MaxBatch
    /\ page_pc = "idle"
    /\ offset = 0
    /\ all_data = <<>>
    /\ batch = None
    /\ page_requests = <<>>
    /\ pages = <<>>
    /\ page_returned = None

\* get_all_data_raw(experiment_id, batch_size): lines 280-286, up to the first
\* await of get_data_raw
get_all_data_raw ==
    /\ page_pc = "idle"
    /\ all_data' = <<>>
    /\ offset' = 0
    /\ page_requests' = <<[limit |-> batch_size, offset |-> 0]>>
    /\ page_pc' = "awaiting"
    /\ UNCHANGED <<server, rows, batch_size, batch, pages, page_returned>>

\* get_data_raw returns a page: lines 284-299, up to the next await or the
\* return
PageArrives ==
    /\ page_pc = "awaiting"
    /\ \E page \in ServerPages(batch_size, offset) :
        /\ batch' = Some(page)
        /\ pages' = Append(pages, Len(page))
        /\ IF page = <<>>
           THEN /\ page_pc' = "done"
                /\ page_returned' = Some(all_data)
                /\ UNCHANGED <<all_data, offset, page_requests>>
           ELSE /\ all_data' = all_data \o page
                /\ IF LastPage(page, batch_size)
                   THEN /\ page_pc' = "done"
                        /\ page_returned' = Some(all_data')
                        /\ UNCHANGED <<offset, page_requests>>
                   ELSE /\ offset' = NextOffset(offset, batch_size)
                        /\ page_requests' = Append(page_requests,
                                                   [limit |-> batch_size,
                                                    offset |-> offset'])
                        /\ UNCHANGED <<page_pc, page_returned>>
    /\ UNCHANGED <<server, rows, batch_size>>

\* get_data_raw raises: the exception leaves get_all_data_raw
PageFails ==
    /\ page_pc = "awaiting"
    /\ server = "any"
    /\ page_pc' = "failed"
    /\ UNCHANGED <<server, rows, batch_size, offset, all_data, batch,
                   page_requests, pages, page_returned>>

(***************************************************************************)
(* http_client.py, lines 55-87: __aenter__, __aexit__, _ensure_client and  *)
(* close on a client shared by concurrent tasks.  A task runs from one     *)
(* await that suspends it to the next without interruption.                *)
(***************************************************************************)
Tasks == 1..MaxTasks

FreshTask == [pc |-> "idle", scope |-> "none", held |-> None, ran |-> "none"]

LifeOff ==
    /\ _client = None
    /\ transports = <<>>
    /\ tasks = <<>>

LifeInit ==
    /\ _client = None
    /\ transports = <<>>
    /\ tasks = [t \in Tasks |-> FreshTask]

\* _ensure_client, lines 64-81: it has no await, so it runs in one piece
EnsureClient ==
    IF _client = None
    THEN /\ Len(transports) < MaxTransports
         /\ transports' = Append(transports, "open")
         /\ _client' = Some(Len(transports) + 1)
    ELSE UNCHANGED <<_client, transports>>

\* __aexit__ that closes only when the body raised nothing
aexit_closes_on_success(how) == how = "normal"

\* __aexit__, lines 60-62: close() is awaited whatever exc_type is
aexit_closes(how) == TRUE

\* close, lines 83-87, up to the await of aclose; left is the scope the caller
\* is in once close has returned
CloseBegins(t, left, ran) ==
    IF _client # None
    THEN tasks' = [tasks EXCEPT ![t] = [pc |-> "closing", scope |-> left,
                                        held |-> _client, ran |-> ran]]
    ELSE tasks' = [tasks EXCEPT ![t] = [pc |-> "idle", scope |-> left,
                                        held |-> None, ran |-> ran]]

\* `async with client:` is entered: __aenter__, lines 55-58
aenter(t) ==
    /\ tasks[t].pc = "idle"
    /\ tasks[t].scope = "none"
    /\ EnsureClient
    /\ tasks' = [tasks EXCEPT ![t] = [pc |-> "idle", scope |-> "with",
                                      held |-> None, ran |-> "none"]]

\* the body of `async with` ends, normally or with an exception: __aexit__
aexit(t) ==
    /\ tasks[t].pc = "idle"
    /\ tasks[t].scope = "with"
    /\ \E how \in {"normal", "exception"} :
        IF aexit_closes(how)
        THEN CloseBegins(t, "none", IF how = "normal" THEN "left normally"
                                                      ELSE "left by exception")
        ELSE tasks' = [tasks EXCEPT ![t] = [pc |-> "idle", scope |-> "none",
                                            held |-> None, ran |-> "none"]]
    /\ UNCHANGED <<_client, transports>>

\* close() is called
close(t) ==
    /\ tasks[t].pc = "idle"
    /\ CloseBegins(t, tasks[t].scope, "close")
    /\ UNCHANGED <<_client, transports>>

\* aclose() returns: line 87, and close returns
aclose_returns(t) ==
    /\ tasks[t].pc = "closing"
    /\ transports' = [transports EXCEPT ![tasks[t].held[1]] = "closed"]
    /\ _client' = None
    /\ tasks' = [tasks EXCEPT ![t].pc = "idle", ![t].held = None]

\* request() is called: lines 112-121, up to the await on the transport
request(t) ==
    /\ tasks[t].pc = "idle"
    /\ EnsureClient
    /\ tasks' = [tasks EXCEPT ![t] = [pc |-> "requesting", scope |-> tasks[t].scope,
                                      held |-> _client', ran |-> "none"]]

\* the transport answers and request() returns or raises
request_ends(t) ==
    /\ tasks[t].pc = "requesting"
    /\ tasks' = [tasks EXCEPT ![t].pc = "idle", ![t].held = None]
    /\ UNCHANGED <<_client, transports>>

\* the transport answers and request() sleeps before a retry: lines 154, 170
request_backs_off(t) ==
    /\ tasks[t].pc = "requesting"
    /\ tasks' = [tasks EXCEPT ![t].pc = "sleeping", ![t].held = None]
    /\ UNCHANGED <<_client, transports>>

\* the sleep is over: the recursive request() of lines 155 and 171
request_resends(t) ==
    /\ tasks[t].pc = "sleeping"
    /\ EnsureClient
    /\ tasks' = [tasks EXCEPT ![t].pc = "requesting", ![t].held = _client']

(***************************************************************************)
(* http_client.py, lines 89-121 and 155, 171: what each attempt sends, and *)
(* what the server does with it.                                           *)
(***************************************************************************)
Methods == {"GET", "POST"}
Urls == {"/api/v1/experiment-data/e/data/", "/api/v1/experiments/"}
JsonBodies == {None, Some("data_row")}
QueryParams == {None, Some("limit=2")}

CallArgs == [method : Methods, url : Urls, json_data : JsonBodies, params : QueryParams]

\* lines 116-121: self._client.request(method=method, url=url, json=json_data,
\* params=params)
SentOnWire(a) ==
    [method |-> a.method, url |-> a.url, json |-> a.json_data, params |-> a.params]

\* the recursive call without params
ResendArgs_without_params(a) == [a EXCEPT !.params = None]

\* lines 155 and 171: self.request(method, url, json_data, params, attempt + 1)
ResendArgs(a) == a

\* the responses the server gives
WireResponses ==
    { r \in Responses :
        /\ r.status_code \in {200, 404, 429, 500, 503}
        /\ r.body = "object"
        /\ r.keys = {}
        /\ r.retry_after_header = None }

\* how many times the server applied a request it answered with this status:
\* once on success, not at all when it rejected it (4xx), and once or not at
\* all when it failed (5xx)
AppliedBehind(status_code) ==
    IF status_code < 400 THEN {1}
    ELSE IF status_code < 500 THEN {0}
    ELSE {0, 1}

\* ... and when the transport raised: a request that could not connect was
\* never received; one that timed out or whose answer was lost may have been
AppliedBefore(e) == IF e = "httpx.ConnectError" THEN {0} ELSE {0, 1}

WireOff ==
    /\ call_args = None
    /\ wire = <<>>
    /\ applied = 0

\* the caller awaits request(method, url, json_data, params)
WireCall ==
    /\ Call
    /\ \E a \in CallArgs :
        /\ call_args' = Some(a)
        /\ wire' = <<SentOnWire(a)>>
    /\ applied' = 0

\* the server answers
WireRespond ==
    /\ pc = "awaiting"
    /\ \E r \in WireResponses, jitter \in Jitters :
        /\ response' = Some(r)
        /\ observed' = Append(observed, [status_code |-> Some(r.status_code),
                                       retry_after_header |-> r.retry_after_header,
                                       exc |-> None])
        /\ \E step \in {OnResponse(r, attempt, jitter)} : Settle(step)
        /\ \E n \in AppliedBehind(r.status_code) : applied' = applied + n
    /\ UNCHANGED <<config, client, attempt, sent, call_args, wire>>

\* the transport raises
WireTransportFails ==
    /\ TransportFails
    /\ \E n \in AppliedBefore(observed'[Len(observed')].exc[1]) : applied' = applied + n
    /\ UNCHANGED <<call_args, wire>>

\* the recursive call sends again
WireResend ==
    /\ Resend
    /\ \E a \in {ResendArgs(call_args[1])} :
        /\ call_args' = Some(a)
        /\ wire' = Append(wire, SentOnWire(a))
    /\ UNCHANGED applied

\* the caller has its result
WireFinish ==
    /\ Finish
    /\ call_args' = None
    /\ wire' = <<>>
    /\ applied' = 0

(***************************************************************************)
(* utils/pandas_utils.py and models/base.py: rows and the table made of    *)
(* them.                                                                   *)
(***************************************************************************)
\* a Python value: the name of its type and its text
Py(t, v) == [t |-> t, v |-> v]

\* float("nan"), which pandas puts where a record has no value
NaN == Py("float", "nan")

\* models/base.py, line 156
standard_fields ==
    {"id", "experiment_uuid", "participant_id", "created_at", "updated_at"}

\* the extra fields `extra="allow"` lets a row carry: pydantic keeps under an
\* extra name only what is no declared field
Extras ==
    { <<>>,
      [k \in {"reaction_time"} |-> Py("float", "1.23")],
      [k \in {"accuracy"} |-> Py("float", "0.95")],
      [k \in {"difficulty_level"} |-> Py("int", "2")],
      [k \in {"difficulty_level"} |-> Py("float", "2.5")],
      [k \in {"correct", "stimulus_type"} |->
            IF k = "correct" THEN Py("bool", "True") ELSE Py("str", "visual")] }

\* the ExperimentDataRow objects of the model
Rows ==
    [id : {Py("int", "1"), Py("int", "2")},
     experiment_uuid : {Py("UUID", "0x550e8400e29b41d4a716446655440000"),
                        Py("UUID", "0x6ba7b8109dad11d180b400c04fd430c8")},
     participant_id : {Py("str", "PART-001")},
     created_at : {Py("datetime", "2024-01-15 10:30:00")},
     updated_at : {Py("datetime", "2024-01-15 10:31:00")},
     extra : Extras]

\* dict.update, and {**d, **other}
update(d, other) ==
    [k \in DOMAIN d \cup DOMAIN other |-> IF k \in DOMAIN other THEN other[k]
                                                                ELSE d[k]]

\* BaseModel.model_dump of a row: its declared fields and its extra fields
model_dump(row) ==
    update([k \in standard_fields |-> row[k]], row.extra)

\* str(uuid): the 32 hexadecimal digits in lower case, in groups of 8, 4, 4, 4
\* and 12 with hyphens between
StrOf(value) ==
    IF value.t = "UUID"
    THEN CASE value.v = "0x550e8400e29b41d4a716446655440000" ->
                  Py("str", "550e8400-e29b-41d4-a716-446655440000")
           [] OTHER -> Py("str", "6ba7b810-9dad-11d1-80b4-00c04fd430c8")
    ELSE Py("str", value.v)

\* a variant of get_custom_data that excludes nothing
get_custom_data_unfiltered(row) == model_dump(row)

\* ExperimentDataRow.get_custom_data
get_custom_data(row) ==
    LET dumped == model_dump(row)
    IN  [k \in DOMAIN dumped \ standard_fields |-> dumped[k]]

\* lines 25-31: the record made of one row
Record(row) ==
    LET record == model_dump(row)
        stringified == [record EXCEPT !["experiment_uuid"] = StrOf(@)]
    IN  update(stringified, get_custom_data(row))

\* a variant that takes the columns of the first record only
Columns_of_first(records) ==
    IF records = <<>> THEN {} ELSE DOMAIN records[1]

\* the columns pd.DataFrame gives a list of dicts: every key of every dict
Columns(records) == UNION {DOMAIN records[i] : i \in 1..Len(records)}

\* the dtype pd.DataFrame infers for a column from the values the records
\* hold there; missing tells that some record has no value there
InferDtype(types, missing) ==
    CASE types = {"float"} -> "float64"
      [] types = {"int"} /\ ~missing -> "int64"
      [] types = {"int"} /\ missing -> "float64"
      [] types = {"int", "float"} -> "float64"
      [] types = {"bool"} /\ ~missing -> "bool"
      [] types = {"datetime"} /\ ~missing -> "datetime64"
      [] OTHER -> "object"

\* float(n) of the ints of the model
AsFloat(value) == IF value.t = "int" THEN Py("float", value.v \o ".0") ELSE value

\* the value a column of the dtype holds for a value of a record
Stored(value, dtype) ==
    CASE dtype = "float64" -> AsFloat(value)
      [] dtype = "datetime64" -> Py("Timestamp", value.v)
      [] OTHER -> value

\* a variant of pd.DataFrame() that has the five standard columns
EmptyFrame_with_columns ==
    [columns |-> standard_fields, rows |-> <<>>,
     dtypes |-> [c \in standard_fields |-> "object"]]

\* pd.DataFrame(): no columns and no rows
EmptyFrame == [columns |-> {}, rows |-> <<>>, dtypes |-> <<>>]

\* line 33, pd.DataFrame(records): one row for each record, in order
DataFrame(records) ==
    LET columns == Columns(records)
        holders(c) == {i \in 1..Len(records) : c \in DOMAIN records[i]}
        dtypes == [c \in columns |->
                      InferDtype({records[i][c].t : i \in holders(c)},
                                 holders(c) # 1..Len(records))]
    IN  [columns |-> columns,
         rows |-> [i \in 1..Len(records) |->
                      [c \in columns |-> IF c \in DOMAIN records[i]
                                         THEN Stored(records[i][c], dtypes[c])
                                         ELSE NaN]],
         dtypes |-> dtypes]

\* lines 36-39: df[col] = pd.to_datetime(df[col]) for the columns the frame has
to_datetime(frame, cols) ==
    [frame EXCEPT
        !.rows = [i \in DOMAIN frame.rows |->
                    [c \in frame.columns |->
                        IF c \in cols /\ frame.rows[i][c].t \in {"datetime", "Timestamp"}
                        THEN Py("Timestamp", frame.rows[i][c].v)
                        ELSE frame.rows[i][c]]],
        !.dtypes = [c \in frame.columns |-> IF c \in cols THEN "datetime64"
                                                          ELSE frame.dtypes[c]]]

\* lines 42-45: df[col] = df[col].astype("category") for the columns the frame
\* has; the values stay and the dtype becomes category
astype_category(frame, cols) ==
    [frame EXCEPT
        !.dtypes = [c \in frame.columns |-> IF c \in cols THEN "category"
                                                          ELSE frame.dtypes[c]]]

\* experiment_data_to_dataframe, lines 19-47
experiment_data_to_dataframe(rows_given) ==
    IF rows_given = <<>>
    THEN EmptyFrame
    ELSE LET records == [i \in 1..Len(rows_given) |-> Record(rows_given[i])]
             frame == DataFrame(records)
             timed == to_datetime(frame, {"created_at", "updated_at"} \cap frame.columns)
         IN  astype_category(timed, {"participant_id", "experiment_uuid"}
                                        \cap timed.columns)

TableOff ==
    /\ data_rows = <<>>
    /\ df = None

TableInit ==
    /\ data_rows \in UNION {[1..m -> Rows] : m \in 0..MaxTableRows}
    /\ df = None

\* the caller converts the rows it holds
Convert ==
    /\ df = None
    /\ df' = Some(experiment_data_to_dataframe(data_rows))
    /\ UNCHANGED data_rows

(***************************************************************************)
(* http_client.py, lines 89-173: the logical requests of several tasks on  *)
(* one HTTPClient.  request() keeps what it knows of a logical request in  *)
(* the parameters and locals of its frames (method, url, json_data,        *)
(* params, attempt, response, error, delay); of the client it reads        *)
(* max_retries, base_delay, max_delay and _client.  A task is suspended    *)
(* only in the await on the transport and in asyncio.sleep, and every      *)
(* action below runs from one suspension to the next.                      *)
(***************************************************************************)
Callers == {"a", "b"}

\* what the server answers to a caller, and how the transport fails
ConcurrentResponses ==
    { r \in Responses : /\ r.status_code \in {200, 503}
                        /\ r.body = "text"
                        /\ r.retry_after_header = None }

ConcurrentErrors == {"httpx.ConnectError", "httpx.ReadError"}

\* random.uniform(0, 1) of the callers, at its lower end
ConcurrentJitters == {0}

\* a caller that has not called request() yet
FreshFrame ==
    [pc |-> "idle", attempt |-> 0, inputs |-> <<>>, slept |-> <<>>, sent |-> 0,
     returned |-> None, raised |-> None, cancelled |-> FALSE]

ConcurrentOff == requests = <<>>

ConcurrentInit == requests = [c \in Callers |-> FreshFrame]

\* a variant that keeps the attempt number on the client, shared by all callers
NextAttempt_shared(c) ==
    LET running == {requests[d].attempt : d \in Callers}
    IN  (CHOOSE m \in running : \A n \in running : n <= m) + 1

\* lines 155 and 171: the attempt argument of the recursive call is the
\* attempt parameter of the calling frame plus one
NextAttempt(c) == requests[c].attempt + 1

\* a variant of line 159 that catches BaseException
ExceptCatches_base_exception(e) == TRUE

\* line 159, `except Exception`: asyncio.CancelledError derives from
\* BaseException and is not caught
ExceptCatches(e) == e # "asyncio.CancelledError"

\* what a pass that received input leaves in the frame of caller c
SettleCaller(c, input, step) ==
    requests' = [requests EXCEPT ![c] =
        [@ EXCEPT !.pc = CASE step.tag = "return" -> "returned"
                           [] step.tag = "raise" -> "raised"
                           [] OTHER -> "sleeping",
                  !.inputs = Append(@, input),
                  !.slept = IF step.tag = "sleep" THEN Append(@, step.delay[1])
                                                  ELSE @,
                  !.returned = step.payload,
                  !.raised = step.error]]

\* a task awaits request(method, url, ...): lines 112-121 up to the await on
\* the transport
CallerCalls(c) ==
    /\ requests[c].pc = "idle"
    /\ client' = _ensure_client
    /\ requests' = [requests EXCEPT ![c] =
                        [FreshFrame EXCEPT !.pc = "awaiting", !.attempt = 1,
                                           !.sent = 1]]
    /\ UNCHANGED config

\* the transport answers the pending attempt of caller c: lines 123-173
CallerGetsResponse(c) ==
    /\ requests[c].pc = "awaiting"
    /\ \E r \in ConcurrentResponses, jitter \in ConcurrentJitters :
        SettleCaller(c, [r |-> Some(r), e |-> None, jitter |-> jitter],
                     OnResponse(r, requests[c].attempt, jitter))
    /\ UNCHANGED <<config, client>>

\* the transport raises in the pending attempt of caller c: lines 159-173
CallerTransportFails(c) ==
    /\ requests[c].pc = "awaiting"
    /\ \E e \in ConcurrentErrors, jitter \in ConcurrentJitters :
        SettleCaller(c, [r |-> None, e |-> Some(e), jitter |-> jitter],
                     OnTransportError(e, requests[c].attempt, jitter))
    /\ UNCHANGED <<config, client>>

\* the sleep of caller c is over: the recursive call of lines 155 and 171, up
\* to its await on the transport
CallerResends(c) ==
    /\ requests[c].pc = "sleeping"
    /\ client' = _ensure_client
    /\ requests' = [requests EXCEPT ![c].pc = "awaiting",
                                    ![c].attempt = NextAttempt(c),
                                    ![c].sent = @ + 1]
    /\ UNCHANGED config

\* the task of caller c is cancelled while it is suspended: the await it is
\* suspended in raises asyncio.CancelledError
CallerCancelled(c) ==
    /\ requests[c].pc \in {"awaiting", "sleeping"}
    /\ IF ExceptCatches("asyncio.CancelledError")
       THEN \E jitter \in ConcurrentJitters :
                LET step == ExceptBlock("asyncio.CancelledError",
                                        requests[c].attempt, jitter)
                IN  requests' = [requests EXCEPT ![c] =
                        [@ EXCEPT !.pc = IF step.tag = "raise" THEN "raised"
                                                               ELSE "sleeping",
                                  !.raised = step.error,
                                  !.cancelled = TRUE]]
       ELSE requests' = [requests EXCEPT ![c].pc = "cancelled",
                                         ![c].cancelled = TRUE]
    /\ UNCHANGED <<config, client>>

(***************************************************************************)
(* The specifications.                                                     *)
(***************************************************************************)
\* one logical request at a time on one HTTPClient
Init ==
    RequestInit /\ VersionOff /\ HeaderOff /\ PagesOff /\ LifeOff /\ WireOff
        /\ ConcurrentOff /\ TableOff

Next ==
    \/ Call /\ UNCHANGED outside_request
    \/ Respond /\ UNCHANGED outside_request
    \/ TransportFails /\ UNCHANGED outside_request
    \/ Resend /\ UNCHANGED outside_request
    \/ Finish /\ UNCHANGED outside_request
    \/ Close /\ UNCHANGED outside_request

Spec == Init /\ [][Next]_vars

\* the HTTPClient as constructed and never used
RequestOff ==
    /\ max_retries = 3
    /\ base_delay = 1
    /\ max_delay = 3
    /\ client = "None"
    /\ pc = "idle"
    /\ attempt = 0
    /\ response = None
    /\ delay = None
    /\ returned = None
    /\ raised = None
    /\ sent = 0
    /\ observed = <<>>
    /\ slept = <<>>

\* the functions of utils/versioning.py on their own
InitVersion ==
    VersionInit /\ RequestOff /\ HeaderOff /\ PagesOff /\ LifeOff /\ WireOff
        /\ ConcurrentOff /\ TableOff

NextVersion == CheckVersion /\ UNCHANGED outside_version

SpecVersion == InitVersion /\ [][NextVersion]_vars

\* two runs of one logical request that differ in the version header
InitHeader ==
    RequestOff /\ HeaderInit /\ PagesOff /\ LifeOff /\ WireOff
        /\ ConcurrentOff /\ TableOff

NextHeader ==
    \/ HeaderCall /\ UNCHANGED outside_header
    \/ HeaderRespond /\ UNCHANGED outside_header
    \/ HeaderTransportFails /\ UNCHANGED outside_header
    \/ HeaderResend /\ UNCHANGED outside_header
    \/ HeaderFinish /\ UNCHANGED outside_header

SpecHeader == InitHeader /\ [][NextHeader]_vars

\* get_all_data_raw against a server
InitPages ==
    PagesInit /\ RequestOff /\ VersionOff /\ HeaderOff /\ LifeOff /\ WireOff
        /\ ConcurrentOff /\ TableOff

NextPages ==
    \/ get_all_data_raw /\ UNCHANGED outside_pages
    \/ PageArrives /\ UNCHANGED outside_pages
    \/ PageFails /\ UNCHANGED outside_pages

SpecPages == InitPages /\ [][NextPages]_vars

\* the event loop runs get_all_data_raw on and the server answers each request
SpecPagesFair == SpecPages /\ WF_vars(NextPages)

\* tasks that share one HTTPClient
InitLife ==
    LifeInit /\ RequestOff /\ VersionOff /\ HeaderOff /\ PagesOff /\ WireOff
        /\ ConcurrentOff /\ TableOff

NextLife ==
    \/ \E t \in Tasks : aenter(t) /\ UNCHANGED outside_life
    \/ \E t \in Tasks : aexit(t) /\ UNCHANGED outside_life
    \/ \E t \in Tasks : close(t) /\ UNCHANGED outside_life
    \/ \E t \in Tasks : aclose_returns(t) /\ UNCHANGED outside_life
    \/ \E t \in Tasks : request(t) /\ UNCHANGED outside_life
    \/ \E t \in Tasks : request_ends(t) /\ UNCHANGED outside_life
    \/ \E t \in Tasks : request_backs_off(t) /\ UNCHANGED outside_life
    \/ \E t \in Tasks : request_resends(t) /\ UNCHANGED outside_life

SpecLife == InitLife /\ [][NextLife]_vars

\* one logical request, what it sends and what the server applies
InitWire ==
    RequestOff /\ WireOff /\ VersionOff /\ HeaderOff /\ PagesOff /\ LifeOff
        /\ ConcurrentOff /\ TableOff

NextWire ==
    \/ WireCall /\ UNCHANGED outside_wire
    \/ WireRespond /\ UNCHANGED outside_wire
    \/ WireTransportFails /\ UNCHANGED outside_wire
    \/ WireResend /\ UNCHANGED outside_wire
    \/ WireFinish /\ UNCHANGED outside_wire

SpecWire == InitWire /\ [][NextWire]_vars

\* two tasks that run request() on one HTTPClient at the same time
InitConcurrent ==
    RequestInit /\ max_retries \in 1..MaxBudget /\ ConcurrentInit
        /\ VersionOff /\ HeaderOff /\ PagesOff /\ LifeOff /\ WireOff /\ TableOff

NextConcurrent ==
    \/ \E c \in Callers : CallerCalls(c) /\ UNCHANGED outside_concurrent
    \/ \E c \in Callers : CallerGetsResponse(c) /\ UNCHANGED outside_concurrent
    \/ \E c \in Callers : CallerTransportFails(c) /\ UNCHANGED outside_concurrent
    \/ \E c \in Callers : CallerResends(c) /\ UNCHANGED outside_concurrent
    \/ \E c \in Callers : CallerCancelled(c) /\ UNCHANGED outside_concurrent

SpecConcurrent == InitConcurrent /\ [][NextConcurrent]_vars

\* the event loop runs every task that can run, the transport answers or fails
\* every attempt and every sleep ends
SpecConcurrentFair == SpecConcurrent /\ WF_vars(NextConcurrent)

\* experiment_data_to_dataframe on its own
InitTable ==
    TableInit /\ RequestOff /\ VersionOff /\ HeaderOff /\ PagesOff /\ LifeOff
        /\ WireOff /\ ConcurrentOff

NextTable == Convert /\ UNCHANGED outside_table

SpecTable == InitTable /\ [][NextTable]_vars

(***************************************************************************)
(* Properties of utils/versioning.py.                                      *)
(***************************************************************************)
Checked == version_result # None
ClientParsed == version_result[1].client_parsed
ApiParsed == version_result[1].api_parsed

\* C12: is_compatible is true iff one of the two strings does not parse or
\* both parse with equal major components; minor and patch play no part.
C12_CompatibleIffSameMajor ==
    Checked =>
        (version_result[1].compatible <=>
            \/ ClientParsed = None
            \/ ApiParsed = None
            \/ ClientParsed[1][1] = ApiParsed[1][1])

\* 1.2.3 against 1.9.0: compatible although minor and patch differ
C12_Witness ==
    /\ Checked
    /\ client_version = Some(<<"1", ".", "2", ".", "3">>)
    /\ api_version = Some(<<"1", ".", "9", ".", "0">>)
    /\ ClientParsed = Some(<<1, 2, 3>>)
    /\ ApiParsed = Some(<<1, 9, 0>>)
    /\ version_result[1].compatible

\* the strings made of a run of TagChars, three runs of digits separated by
\* dots and, optionally, a suffix that starts with - or +
IsDigits(str) == str # <<>> /\ \A i \in 1..Len(str) : str[i] \in Digits

\* str is a run of TagChars, then digits "." digits "." digits, then nothing
\* or a suffix starting with - or +, and Ok holds of the three numbers
Shaped(str, TagChars, Ok(_)) ==
    \E k \in 0..Len(str) :
        /\ \A n \in 1..k : str[n] \in TagChars
        /\ \E i \in (k + 2)..Len(str) :
            /\ str[i] = "."
            /\ IsDigits(SubSeq(str, k + 1, i - 1))
            /\ \E j \in (i + 2)..Len(str) :
                /\ str[j] = "."
                /\ IsDigits(SubSeq(str, i + 1, j - 1))
                /\ \E m \in (j + 2)..(Len(str) + 1) :
                    /\ IsDigits(SubSeq(str, j + 1, m - 1))
                    /\ (m = Len(str) + 1 \/ str[m] \in {"-", "+"})
                    /\ Ok(<<IntOf(SubSeq(str, k + 1, i - 1)),
                            IntOf(SubSeq(str, i + 1, j - 1)),
                            IntOf(SubSeq(str, j + 1, m - 1))>>)

\* parsed is what such a string denotes, and None for any other string
Denoted(parsed, str, TagChars) ==
    IF parsed = None
    THEN ~Shaped(str, TagChars, LAMBDA t : TRUE)
    ELSE Shaped(str, TagChars, LAMBDA t : t = parsed[1])

Letters == {"a", "b", "c", "d", "e", "l", "r", "t", "v", "x"}

\* C13 as stated: parse_version returns the triple of every string made of an
\* optional leading tag of non-digit characters (letters), three
\* dot-separated integers and an optional suffix, and None for any other
\* string.
C13_ParsesAnyTag ==
    Checked =>
        /\ Denoted(ApiParsed, api_version[1], Letters)
        /\ Denoted(ClientParsed, client_version[1], Letters)

\* C13 amended: the leading tag is any number of "v" characters.
C13_ParsesVTag ==
    Checked =>
        /\ Denoted(ApiParsed, api_version[1], {"v"})
        /\ Denoted(ClientParsed, client_version[1], {"v"})

\* v1.2.3-beta parses to (1, 2, 3)
C13_Witness ==
    /\ Checked
    /\ api_version = Some(<<"v", "1", ".", "2", ".", "3", "-", "b", "e", "t", "a">>)
    /\ ApiParsed = Some(<<1, 2, 3>>)

\* C14: get_compatibility_warning returns None exactly when is_compatible is
\* true; when both strings parse and the majors differ it returns the
\* "client is newer" message iff the client's major is the greater one and
\* the "client is older" message otherwise.
C14_DirectionalWarning ==
    Checked =>
        /\ version_result[1].warning = None <=> version_result[1].compatible
        /\ (/\ ClientParsed # None
            /\ ApiParsed # None
            /\ ClientParsed[1][1] # ApiParsed[1][1]) =>
                version_result[1].warning =
                    IF ClientParsed[1][1] > ApiParsed[1][1]
                    THEN Some("client is newer")
                    ELSE Some("client is older")

\* client 2.1.0 against a server of major 1
C14_Witness ==
    /\ Checked
    /\ ClientParsed = Some(<<2, 1, 0>>)
    /\ ApiParsed # None
    /\ ApiParsed[1][1] = 1
    /\ version_result[1].warning = Some("client is newer")

(***************************************************************************)
(* Properties of the version header.                                       *)
(***************************************************************************)
\* C11: two runs of a logical request that receive the same statuses, bodies
\* and transport exceptions and differ in the X-WAVE-API-Version header
\* (absent, compatible, incompatible, unparseable) make the same number of
\* attempts, sleep the same delays and end with the same payload or error;
\* the version check only logs.
C11_HeaderChangesNothing ==
    twin # None =>
        /\ twin[1].pc = pc
        /\ twin[1].attempt = attempt
        /\ twin[1].slept = slept
        /\ twin[1].delay = delay
        /\ twin[1].returned = returned
        /\ twin[1].raised = raised

\* after a retry one run was told of an incompatible server and logged the
\* warning, the other saw no header, and both have returned
C11_Witness ==
    /\ twin # None
    /\ pc = "returned"
    /\ sent >= 2
    /\ api_version = Some(<<"2", ".", "0", ".", "0">>)
    /\ version_log = Some(<< <<"warning", "incompatible">>,
                             <<"warning", "client is older">> >>)
    /\ twin[1].header = None
    /\ twin[1].log = <<>>
    /\ twin[1].pc = "returned"

(***************************************************************************)
(* Properties of get_all_data_raw.                                         *)
(***************************************************************************)
\* C15: get_all_data_raw requests pages at offsets 0, b, 2b, ... with limit
\* b, one at a time; it makes no request after the first page that is empty
\* or shorter than b, and it makes a further request after every page of
\* exactly b rows.
C15_PagesInTurn ==
    /\ \A i \in 1..Len(page_requests) :
        page_requests[i] = [limit |-> batch_size, offset |-> (i - 1) * batch_size]
    /\ Len(page_requests) =
           IF page_pc \in {"awaiting", "failed"} THEN Len(pages) + 1 ELSE Len(pages)
    /\ \A i \in 1..Len(pages) :
        /\ pages[i] < batch_size => Len(page_requests) <= i
        /\ pages[i] = batch_size => Len(page_requests) > i

\* two full pages and a short one: three requests and no fourth
C15_Witness ==
    /\ batch_size = 2
    /\ pages = <<2, 2, 1>>
    /\ page_pc = "done"
    /\ page_requests = <<[limit |-> 2, offset |-> 0], [limit |-> 2, offset |-> 2],
                         [limit |-> 2, offset |-> 4]>>

FixedServer == server = "fixed" /\ page_pc # "idle"

\* C16: against a server that holds a fixed list of n rows and answers
\* (limit, offset) with rows[offset : offset+limit], get_all_data_raw with
\* batch_size >= 1 terminates and returns exactly those rows in order, none
\* twice and none left out, also for n = 0 and for n a multiple of b.
C16_ReturnsEveryRowOnce ==
    /\ [](FixedServer /\ page_pc = "done" => page_returned = Some(rows))
    /\ [](FixedServer => <>(page_pc = "done"))

\* four rows in batches of two: the third page is empty
C16_Witness ==
    /\ server = "fixed"
    /\ Len(rows) = 4
    /\ batch_size = 2
    /\ pages = <<2, 2, 0>>
    /\ page_pc = "done"
    /\ page_returned = Some(rows)

(***************************************************************************)
(* Properties of the client's life cycle.                                  *)
(***************************************************************************)
Left == {"left normally", "left by exception"}

\* C17: leaving `async with`, normally or by an exception of the body, always
\* runs close(); when close() returns the client holds no transport and the
\* transport close() found has been closed; close() on a client that holds
\* no transport changes nothing.
C17_ExitCloses ==
    [][\A t \in Tasks :
        \* the task leaves `async with`: close() is run
        /\ (tasks[t].scope = "with" /\ tasks'[t].scope = "none") =>
               /\ tasks'[t].ran \in Left
               /\ IF _client # None
                  THEN tasks'[t].pc = "closing" /\ tasks'[t].held = _client
                  ELSE tasks'[t].pc = "idle"
        \* close() returns from aclose
        /\ (tasks[t].pc = "closing" /\ tasks'[t].pc # "closing") =>
               /\ _client' = None
               /\ transports'[tasks[t].held[1]] = "closed"
        \* close() finds no transport
        /\ (/\ tasks[t].pc = "idle"
            /\ tasks'[t].pc = "idle"
            /\ tasks'[t].ran \in Left \cup {"close"}
            /\ tasks'[t] # tasks[t]) =>
               /\ _client = None
               /\ UNCHANGED <<_client, transports>>
    ]_vars

\* a task has left `async with` by an exception and its close() has
\* returned: the one transport is closed and the client holds none
C17_Witness ==
    /\ tasks # <<>>
    /\ tasks[1] = [pc |-> "idle", scope |-> "none", held |-> None,
                   ran |-> "left by exception"]
    /\ transports = <<"closed">>
    /\ _client = None

Live == {i \in 1..Len(transports) : transports[i] = "open"}

\* C18: at most one transport is live per HTTPClient at any time: none before
\* the first __aenter__ or request, which creates it, and every later
\* request, sequential or concurrent, retries included, is sent on that same
\* transport until close().
C18_OneLiveTransport ==
    /\ Cardinality(Live) <= 1
    /\ \A t \in DOMAIN tasks :
        tasks[t].pc = "requesting" /\ _client # None /\ Live # {} =>
            \/ tasks[t].held = _client
            \/ transports[tasks[t].held[1]] = "closed"

(***************************************************************************)
(* Properties of what is sent.                                             *)
(***************************************************************************)
LastOutcome == observed[Len(observed)]

\* outcomes after which the server cannot have applied the request: it
\* rejected it with a 4xx status, or the connection was never made
NotApplied(o) ==
    \/ o.status_code # None /\ o.status_code[1] \in 400..499
    \/ o.exc = Some("httpx.ConnectError")

\* C19: a POST is re-sent only after an outcome from which the server is
\* guaranteed not to have applied it, so that within one logical POST request
\* the server applies the request at most once, whatever failures occur.
C19_PostAppliedAtMostOnce ==
    (call_args # None /\ call_args[1].method = "POST") =>
        /\ pc = "sleeping" => NotApplied(LastOutcome)
        /\ applied <= 1

\* C20: every attempt of a logical request is sent with the method, url, JSON
\* body and query params of the first; a retry changes the attempt number
\* only.
C20_SentVerbatim ==
    call_args # None =>
        /\ Len(wire) = sent
        /\ attempt = sent
        /\ \A i \in 1..Len(wire) : wire[i] = wire[1]
        /\ wire[1] = SentOnWire(call_args[1])

\* a POST with a body and params on its third attempt
C20_Witness ==
    /\ Len(wire) = 3
    /\ attempt = 3
    /\ wire[3] = [method |-> "POST", url |-> "/api/v1/experiment-data/e/data/",
                  json |-> Some("data_row"), params |-> Some("limit=2")]
    /\ pc = "awaiting"

(***************************************************************************)
(* Properties of the except block of request().                            *)
(***************************************************************************)
\* the exception the except block of the running frame caught, if any: the
\* one the transport raised or the one thrown inside the try block
Caught ==
    IF observed # <<>> /\ observed[Len(observed)].exc # None
    THEN observed[Len(observed)].exc
    ELSE IF Handled THEN TryBody(TheResponse, attempt, 0).exc ELSE None

\* s is the end of the string str
EndsWith(str, s) ==
    /\ Len(s) <= Len(str)
    /\ SubSeq(str, Len(str) - Len(s) + 1, Len(str)) = s

\* C21: a timeout or a connection failure of the transport is retried with
\* the exponential delay while attempt < max_retries; any other exception
\* that is no WaveClientError, and a timeout or connection failure on the last
\* allowed attempt, is raised as plain WaveClientError whose message holds the
\* text of the exception, and nothing is sent after it.
C21_TransportErrorRetriedOrWrapped ==
    (pc \in {"sleeping", "raised", "returned"} /\ Caught # None) =>
        LET e == Caught[1]
        IN  IF /\ e \in {"asyncio.TimeoutError", "httpx.TimeoutException",
                         "httpx.ConnectError"}
               /\ attempt < max_retries
            THEN /\ pc = "sleeping"
                 /\ delay[1] \in ExponentialDelays(attempt)
                 /\ Len(slept) = sent
            ELSE /\ pc = "raised"
                 /\ raised[1].cls = "WaveClientError"
                 /\ raised[1].status_code = None
                 /\ EndsWith(raised[1].message, ExceptionText(e))
                 /\ sent = attempt
                 /\ Len(slept) = sent - 1

\* a connection failure is retried once and the timeout that follows on the
\* last allowed attempt is raised
C21_Witness ==
    /\ max_retries = 2
    /\ pc = "raised"
    /\ Len(observed) = 2
    /\ observed[1].exc = Some("httpx.ConnectError")
    /\ observed[2].exc = Some("httpx.TimeoutException")
    /\ raised[1].message = "Request failed: timed out"

(***************************************************************************)
(* Properties of the success branch of request().                          *)
(***************************************************************************)
\* the frame has just handled a response below 400
HandledSuccess == Handled /\ TheResponse.status_code < 400

\* nothing was slept and nothing is sent after the response in hand
EndsAtThisAttempt ==
    /\ pc \in {"returned", "raised"}
    /\ sent = attempt
    /\ Len(slept) = sent - 1
    /\ delay = None

\* C28 as stated: a response below 400 ends the logical request at that
\* attempt with no retry and no sleep, and the result is the decoded JSON
\* body when the content type starts with application/json and the mapping
\* {message: response text} otherwise.
C28_SuccessReturnsBody ==
    HandledSuccess =>
        /\ EndsAtThisAttempt
        /\ pc = "returned"
        /\ returned = Some(IF ContentTypeIsJson(TheResponse)
                           THEN [wrapped |-> FALSE, content |-> TheResponse.body]
                           ELSE [wrapped |-> TRUE,
                                 content |-> ResponseText(TheResponse)])

\* C28 as amended: a response below 400 ends the logical request at that
\* attempt with no retry and no sleep; with a JSON content type the result is
\* the decoded body, or, where the body does not decode, the plain
\* WaveClientError "Request failed: ..." is raised; with any other content
\* type the result is the mapping {message: response text}.
C28_SuccessReturnsBodyOrDecodeError ==
    HandledSuccess =>
        /\ EndsAtThisAttempt
        /\ CASE ~ContentTypeIsJson(TheResponse) ->
                    /\ pc = "returned"
                    /\ returned = Some([wrapped |-> TRUE,
                                        content |-> ResponseText(TheResponse)])
             [] ContentTypeIsJson(TheResponse) /\ TheResponse.body # "undecodable" ->
                    /\ pc = "returned"
                    /\ returned = Some([wrapped |-> FALSE,
                                        content |-> TheResponse.body])
             [] OTHER ->
                    /\ pc = "raised"
                    /\ raised[1].cls = "WaveClientError"
                    /\ raised[1].status_code = None
                    /\ raised[1].message = "Request failed: Expecting value"

\* a 200 whose JSON body does not decode is raised on the second attempt, and
\* no third attempt is made although one is allowed
C28_Witness ==
    /\ max_retries = 3
    /\ HandledSuccess
    /\ TheResponse.body = "undecodable"
    /\ attempt = 2
    /\ pc = "raised"

(***************************************************************************)
(* Properties of the error branch of request().                            *)
(***************************************************************************)
\* the response in hand with a body that is plain text
AsText(r) == [r EXCEPT !.body = "text", !.keys = {}]

\* C29: for an error response (status >= 400) the class of the error raised
\* and the decision to retry depend on the status code and the attempt number
\* only: a body that is a JSON object, a JSON value that is no object, JSON
\* that does not decode or text that is no JSON gives the same class and the
\* same decision as any other body with that status.
C29_BodyKindIrrelevant ==
    (Handled /\ TheResponse.status_code >= 400) =>
        LET plain == OnResponse(AsText(TheResponse), attempt, 0)
        IN  /\ pc = IF plain.tag = "sleep" THEN "sleeping" ELSE "raised"
            /\ pc = "raised" => raised[1].cls = plain.error[1].cls

(***************************************************************************)
(* Properties of close() racing with request() and with itself.            *)
(***************************************************************************)
\* C30: under every interleaving of close() and request() calls on one
\* client, close() sets _client to None only for a transport that has been
\* closed: a transport _ensure_client created is open only while _client
\* refers to it, so once every call has returned and a last close() has left
\* _client at None, every transport ever created is closed.
C30_NothingDroppedUnclosed ==
    \A i \in 1..Len(transports) :
        transports[i] = "open" => _client = Some(i)

(***************************************************************************)
(* Properties of concurrent logical requests.                              *)
(***************************************************************************)
\* the logical request of caller c has come to its end
Over(c) == requests[c].pc \in {"returned", "raised", "cancelled"}

\* C22: cancelling a logical request while it waits for the transport or
\* sleeps before a retry ends it at once: the cancellation is neither retried
\* nor turned into a WaveClientError, nothing more is sent for that request,
\* the step changes nothing of the other requests of the client, and these
\* still come to their own ends.
C22_CancelEndsTheRequestOnly ==
    /\ [][\A c \in Callers :
            /\ (~requests[c].cancelled /\ requests'[c].cancelled) =>
                  /\ requests' = [requests EXCEPT ![c].pc = "cancelled",
                                                  ![c].cancelled = TRUE]
                  /\ client' = client
            /\ requests[c].cancelled =>
                  /\ requests'[c] = requests[c]
                  /\ requests[c].pc = "cancelled"
                  /\ requests[c].raised = None
                  /\ requests[c].returned = None]_vars
    /\ \A c \in Callers :
          [](requests[c].pc \in {"awaiting", "sleeping"} => <>Over(c))

\* caller a was cancelled in the sleep before its second attempt, and caller
\* b, whose first attempt was in flight then or later, was answered 503 and
\* then 200
C22_Witness ==
    /\ requests["a"].cancelled
    /\ requests["a"].sent = 1
    /\ Len(requests["a"].slept) = 1
    /\ requests["b"].pc = "returned"
    /\ requests["b"].sent = 2

\* the pass request() makes at attempt k of a logical request that received
\* inputs, taken alone
Alone(inputs) ==
    [k \in 1..Len(inputs) |->
        IF inputs[k].r # None
        THEN OnResponse(inputs[k].r[1], k, inputs[k].jitter)
        ELSE OnTransportError(inputs[k].e[1], k, inputs[k].jitter)]

\* C23: for logical requests that run at the same time on one client, under
\* every interleaving of their attempts and sleeps, the attempts, delays and
\* result of each are those its own responses give when it runs alone: no
\* retry or failure of one uses up the attempts of another or fails it.
C23_OwnResponsesOnly ==
    \A c \in Callers :
        LET f == requests[c]
            n == Len(f.inputs)
            alone == Alone(f.inputs)
        IN  f.pc # "idle" =>
              /\ f.attempt = f.sent
              /\ f.sent <= max_retries
              /\ f.pc = "awaiting" => f.sent = n + 1
              /\ f.pc \in {"sleeping", "returned", "raised"} => f.sent = n
              /\ f.pc = "cancelled" => f.sent \in {n, n + 1}
              /\ \A k \in 1..Len(f.slept) :
                    alone[k].tag = "sleep" /\ f.slept[k] = alone[k].delay[1]
              /\ Len(f.slept) = IF f.pc \in {"returned", "raised"} THEN n - 1 ELSE n
              /\ f.pc = "returned" =>
                    alone[n].tag = "return" /\ f.returned = alone[n].payload
              /\ f.pc = "raised" =>
                    alone[n].tag = "raise" /\ f.raised = alone[n].error

\* with two attempts allowed, caller a used both and was raised its second
\* 503, and caller b, running meanwhile, still had its retry and its answer
C23_Witness ==
    /\ max_retries = 2
    /\ requests["a"].pc = "raised"
    /\ requests["a"].sent = 2
    /\ requests["a"].raised[1].cls = "ServerError"
    /\ requests["b"].pc = "returned"
    /\ requests["b"].sent = 2
    /\ requests["b"].inputs[1].e = Some("httpx.ConnectError")

(***************************************************************************)
(* Properties of experiment_data_to_dataframe.                             *)
(***************************************************************************)
Converted == df # None
Frame == df[1]

\* the custom columns of the rows given
CustomColumns == UNION {DOMAIN data_rows[i].extra : i \in 1..Len(data_rows)}

\* C24: for an empty list of rows experiment_data_to_dataframe returns a
\* table with no columns and no rows.
C24_EmptyGivesEmpty ==
    (Converted /\ data_rows = <<>>) =>
        /\ Frame.columns = {}
        /\ Frame.rows = <<>>

\* the empty list has been converted
C24_Witness ==
    /\ Converted
    /\ Len(data_rows) = 0
    /\ Cardinality(Frame.columns) = 0

\* C25: for a non-empty list of rows the table has one row for each row
\* given, in the order given; its columns are the five standard fields and
\* every custom field of any row; a row holds NaN in each column it has no
\* value for, and its own value elsewhere.
C25_UnionOfColumns ==
    (Converted /\ data_rows # <<>>) =>
        /\ Len(Frame.rows) = Len(data_rows)
        /\ Frame.columns = standard_fields \cup CustomColumns
        /\ \A i \in 1..Len(data_rows) :
              /\ DOMAIN Frame.rows[i] = Frame.columns
              /\ Frame.rows[i]["id"] = data_rows[i].id
              /\ \A c \in CustomColumns :
                    IF c \in DOMAIN data_rows[i].extra
                    THEN Frame.rows[i][c].v \in
                            {data_rows[i].extra[c].v, AsFloat(data_rows[i].extra[c]).v}
                    ELSE Frame.rows[i][c] = NaN

\* rows with the custom fields {reaction_time} and {accuracy} make one table
\* with both columns
C25_Witness ==
    /\ Converted
    /\ Len(data_rows) = 2
    /\ DOMAIN data_rows[1].extra = {"reaction_time"}
    /\ DOMAIN data_rows[2].extra = {"accuracy"}
    /\ {"reaction_time", "accuracy"} \subseteq Frame.columns
    /\ Frame.rows[1]["accuracy"] = NaN
    /\ Frame.rows[2]["reaction_time"] = NaN

\* C26: every row of the table has the five standard fields, and they hold
\* the values of the row given (experiment_uuid as a string, the two times as
\* timestamps): get_custom_data returns no key that is a standard field, so
\* flattening the custom fields overwrites none of them.
C26_MandatoryKept ==
    (Converted /\ data_rows # <<>>) =>
        \A i \in 1..Len(data_rows) :
            LET row == data_rows[i]
                out == Frame.rows[i]
            IN  /\ standard_fields \subseteq DOMAIN out
                /\ out["id"] = row.id
                /\ out["experiment_uuid"] = StrOf(row.experiment_uuid)
                /\ out["participant_id"] = row.participant_id
                /\ out["created_at"] = Py("Timestamp", row.created_at.v)
                /\ out["updated_at"] = Py("Timestamp", row.updated_at.v)
                /\ DOMAIN get_custom_data(row) \cap standard_fields = {}

\* a row with two custom fields has been flattened
C26_Witness ==
    /\ Converted
    /\ Len(data_rows) = 1
    /\ DOMAIN data_rows[1].extra = {"correct", "stimulus_type"}
    /\ Frame.rows[1]["correct"] = Py("bool", "True")
    /\ Frame.rows[1]["id"] = Py("int", "1")

\* C27: in the table created_at and updated_at are timestamps,
\* participant_id and experiment_uuid are categorical with experiment_uuid
\* as the canonical string of the UUID, and every custom column holds, for
\* each row, the value the row had there with the type it had.
C27_CustomTypesKept ==
    (Converted /\ data_rows # <<>>) =>
        /\ Frame.dtypes["created_at"] = "datetime64"
        /\ Frame.dtypes["updated_at"] = "datetime64"
        /\ Frame.dtypes["participant_id"] = "category"
        /\ Frame.dtypes["experiment_uuid"] = "category"
        /\ \A i \in 1..Len(data_rows) :
              /\ Frame.rows[i]["created_at"].t = "Timestamp"
              /\ Frame.rows[i]["updated_at"].t = "Timestamp"
              /\ Frame.rows[i]["experiment_uuid"] = StrOf(data_rows[i].experiment_uuid)
              /\ \A c \in DOMAIN data_rows[i].extra :
                    Frame.rows[i][c] = data_rows[i].extra[c]

====
